---- MODULE Spec2Model ----
(***************************************************************************)
(* Model of verify_mermaid_diagrams.py: the diagram extractor, the         *)
(* heuristic syntax validator, the render prober and the orchestrator      *)
(* (main).  Text is modelled as a sequence of one-character strings, so    *)
(* that str.count, str.find, str.split, str.strip, the 'in' substring test   *)
(* and the two regular expressions are computed character by character.    *)
(***************************************************************************)
EXTENDS Integers, Sequences, FiniteSets, TLC

VARIABLES
    \* validate_mermaid_syntax called on its own
    v_pc, v_content, v_errors, v_type,
    \* extract_mermaid_diagrams called on its own
    x_pc, x_text, x_diagrams, x_starts,
    \* the environment of a run of the script
    docs_exists,        \* whether the directory docs exists
    docs_files,         \* the *.md files in it, in the order glob yields them
    mmdc_present,       \* whether the mmdc binary can be found
    report_disk,        \* mermaid_validation_results.json on disk
    temp_disk,          \* the temporary .mmd files on disk
    \* main and the probe it calls
    pc, markdown_files, fidx, all_diagrams, didx, result, validation_results,
    total_errors, temp_file, probe_ret, ret,
    \* what the run shows: discovery diagnostic, summary, exit status
    diagnostic, summary, exit_status,
    \* history: the temporary file the current probe created, how each
    \* finished probe went, and how often each stage was entered
    probe_created, probe_path, probe_log, calls

v_vars == <<v_pc, v_content, v_errors, v_type>>
x_vars == <<x_pc, x_text, x_diagrams, x_starts>>
env_vars == <<docs_exists, docs_files, mmdc_present>>
probe_vars == <<temp_disk, temp_file, probe_ret, probe_created, probe_path>>
loop_vars == <<markdown_files, fidx, all_diagrams, didx, result,
               validation_results, total_errors, probe_log>>
out_vars == <<report_disk, ret, diagnostic, summary, exit_status>>
m_vars == <<env_vars, probe_vars, loop_vars, out_vars, pc, calls>>
vars == <<v_vars, x_vars, m_vars>>

(***************************************************************************)
(* Bounds of the model.                                                    *)
(***************************************************************************)
\* Largest number of lines of a diagram text handed to the validator.
MaxLines == 4
\* Largest number of lines of a documentation file handed to the extractor.
MaxFileLines == 6
\* Largest number of *.md files in the docs directory of a run.
MaxFiles == 2

(***************************************************************************)
(* Python string primitives.                                               *)
(***************************************************************************)
NL == "\n"

Whitespace == {" ", "\t", NL, "\r"}

\* The characters the regular expression class \w matches.
WordChars ==
    {"a","b","c","d","e","f","g","h","i","j","k","l","m","n","o","p","q","r",
     "s","t","u","v","w","x","y","z","A","B","C","D","E","F","G","H","I","J",
     "K","L","M","N","O","P","Q","R","S","T","U","V","W","X","Y","Z","0","1",
     "2","3","4","5","6","7","8","9","_"}

\* s[a:b] with 0-based, end-exclusive Python indices 0 <= a, b <= len(s).
Slice(s, a, b) == IF b <= a THEN <<>> ELSE SubSeq(s, a + 1, b)

\* True when p occurs in s starting at 0-based offset i.
OccursAt(s, p, i) ==
    /\ i >= 0
    /\ i + Len(p) <= Len(s)
    /\ \A k \in 1..Len(p) : s[i + k] = p[k]

\* p in s
Contains(s, p) == \E i \in 0..Len(s) : OccursAt(s, p, i)

\* s.find(p, start): lowest 0-based offset >= start at which p occurs, or -1.
RECURSIVE FindFrom(_, _, _)
FindFrom(s, p, start) ==
    IF start + Len(p) > Len(s) THEN -1
    ELSE IF OccursAt(s, p, start) THEN start
    ELSE FindFrom(s, p, start + 1)

\* s.find(p)
Find(s, p) == FindFrom(s, p, 0)

\* s.count(c) for a one-character c
RECURSIVE CountFrom(_, _, _)
CountFrom(s, c, i) ==
    IF i > Len(s) THEN 0
    ELSE (IF s[i] = c THEN 1 ELSE 0) + CountFrom(s, c, i + 1)

Count(s, c) == CountFrom(s, c, 1)

\* s.startswith(p)
StartsWith(s, p) == OccursAt(s, p, 0)

RECURSIVE LStrip(_)
LStrip(s) ==
    IF s # <<>> /\ Head(s) \in Whitespace THEN LStrip(Tail(s)) ELSE s

RECURSIVE RStrip(_)
RStrip(s) ==
    IF s # <<>> /\ s[Len(s)] \in Whitespace
    THEN RStrip(SubSeq(s, 1, Len(s) - 1))
    ELSE s

\* s.strip()
Strip(s) == RStrip(LStrip(s))

\* s.split('\n'): always at least one (possibly empty) line.
RECURSIVE SplitLines(_)
SplitLines(s) ==
    LET i == Find(s, <<NL>>)
    IN  IF i = -1 THEN <<s>>
        ELSE <<Slice(s, 0, i)>> \o SplitLines(Slice(s, i + 1, Len(s)))

\* '\n'.join(lines)
RECURSIVE JoinLines(_)
JoinLines(lines) ==
    IF lines = <<>> THEN <<>>
    ELSE IF Len(lines) = 1 THEN lines[1]
    ELSE lines[1] \o <<NL>> \o JoinLines(Tail(lines))

\* The model's stand-in for Python's None where a string is expected; like
\* None it is falsy, and no recognised header or message is empty.
None == <<>>

(***************************************************************************)
(* validate_mermaid_syntax                                                 *)
(***************************************************************************)
valid_types ==
    << <<"g","r","a","p","h"," ","T","D">>,
       <<"g","r","a","p","h"," ","L","R">>,
       <<"s","e","q","u","e","n","c","e","D","i","a","g","r","a","m">>,
       <<"g","a","n","t","t">>,
       <<"e","r","D","i","a","g","r","a","m">>,
       <<"f","l","o","w","c","h","a","r","t">>,
       <<"s","t","a","t","e","D","i","a","g","r","a","m">> >>

arrow_patterns ==
    << <<"-","-",">">>, <<"-","-","-">>, <<"=","=",">">>, <<"=","=">>,
       <<"-",".","-",">">>, <<"-",".","-">> >>

kw_style_sp == <<"s","t","y","l","e"," ">>
kw_style == <<"s","t","y","l","e">>
kw_fill == <<"f","i","l","l",":">>
kw_graph == <<"g","r","a","p","h">>

\* An entry of the errors list: the message's fixed text, and the value
\* formatted into it (a signed count, or a line of the diagram).
Err(kind, n, line) == [kind |-> kind, n |-> n, line |-> line]

open_brackets(diagram_content) ==
    Count(diagram_content, "[") - Count(diagram_content, "]")

\* A slip of the braces count: the opening character of the pair before it.
open_braces_miscounted(diagram_content) ==
    Count(diagram_content, "[") - Count(diagram_content, "}")

open_braces(diagram_content) ==
    Count(diagram_content, "{") - Count(diagram_content, "}")

open_parens(diagram_content) ==
    Count(diagram_content, "(") - Count(diagram_content, ")")

BracketErrors(diagram_content) ==
    (IF open_brackets(diagram_content) # 0
     THEN <<Err("Unclosed brackets", open_brackets(diagram_content), <<>>)>>
     ELSE <<>>)
    \o
    (IF open_braces(diagram_content) # 0
     THEN <<Err("Unclosed braces", open_braces(diagram_content), <<>>)>>
     ELSE <<>>)
    \o
    (IF open_parens(diagram_content) # 0
     THEN <<Err("Unclosed parentheses", open_parens(diagram_content), <<>>)>>
     ELSE <<>>)

\* The inner loop: the first entry of valid_types, from index k on, that is
\* a substring of line; None when there is none.
RECURSIVE TypeInLine(_, _)
TypeInLine(line, k) ==
    IF k > Len(valid_types) THEN None
    ELSE IF Contains(line, valid_types[k]) THEN valid_types[k]
    ELSE TypeInLine(line, k + 1)

\* A variant of lines[:3] that skips empty lines before taking three.
HeaderLinesNonEmpty(lines) ==
    LET IsFilled(l) == l # <<>>
        filled == SelectSeq(lines, IsFilled)
    IN  SubSeq(filled, 1, IF Len(filled) < 3 THEN Len(filled) ELSE 3)

\* lines[:3]
HeaderLines(lines) == SubSeq(lines, 1, IF Len(lines) < 3 THEN Len(lines) ELSE 3)

\* The outer loop over the lines examined, stopping at the first match.
RECURSIVE TypeInLines(_)
TypeInLines(ls) ==
    IF ls = <<>> THEN None
    ELSE IF TypeInLine(Head(ls), 1) # None THEN TypeInLine(Head(ls), 1)
    ELSE TypeInLines(Tail(ls))

DetectType(lines) == TypeInLines(HeaderLines(lines))

has_arrows(diagram_content) ==
    \E k \in 1..Len(arrow_patterns) : Contains(diagram_content, arrow_patterns[k])

\* re.match(r'style\s+\w+\s+fill:', line): anchored at offset 0 of line.
ReMatchStyle(line) ==
    /\ OccursAt(line, kw_style, 0)
    /\ \E a \in (Len(kw_style) + 1)..Len(line) :
        /\ \A k \in (Len(kw_style) + 1)..a : line[k] \in Whitespace
        /\ \E b \in (a + 1)..Len(line) :
            /\ \A k \in (a + 1)..b : line[k] \in WordChars
            /\ \E c \in (b + 1)..Len(line) :
                /\ \A k \in (b + 1)..c : line[k] \in Whitespace
                /\ OccursAt(line, kw_fill, c)

IsStyleLine(line) == StartsWith(Strip(line), kw_style_sp)

style_lines(lines) == SelectSeq(lines, IsStyleLine)

StyleLineBad(style_line) == ~ReMatchStyle(style_line)

StyleErrors(lines) ==
    LET bad == SelectSeq(style_lines(lines), StyleLineBad)
    IN  [i \in 1..Len(bad) |-> Err("Invalid style syntax", 0, Strip(bad[i]))]

validate_mermaid_syntax(diagram_content) ==
    LET lines == SplitLines(diagram_content)
        diagram_type == DetectType(lines)
        errors ==
            BracketErrors(diagram_content)
            \o (IF diagram_type = None
                THEN <<Err("No valid diagram type found", 0, <<>>)>>
                ELSE <<>>)
            \o (IF /\ ~has_arrows(diagram_content)
                   /\ diagram_type # None
                   /\ Contains(diagram_type, kw_graph)
                THEN <<Err("Graph diagram missing arrow connections", 0, <<>>)>>
                ELSE <<>>)
            \o StyleErrors(lines)
    IN  [errors |-> errors, diagram_type |-> diagram_type]

(***************************************************************************)
(* extract_mermaid_diagrams                                                *)
(***************************************************************************)
\* The backquote character, which a string of this notation cannot hold: the
\* element BT of a text stands for that one character.
BT == "BACKQUOTE"

fence_open == <<BT,BT,BT,"m","e","r","m","a","i","d","\n">>
fence_close == <<"\n",BT,BT,BT>>

\* re.findall over the fenced-block pattern with re.DOTALL, scanning from
\* offset pos: leftmost opening fence, then the nearest closing fence after
\* it (non-greedy), then on from the end of that match.  An opening fence
\* with no closing fence after it ends the scan: a later opening fence would
\* need the same missing closing fence.  Each entry holds group 1 (body),
\* which is all findall returns, and the offset at which the group matched
\* (start), which the code never looks at.
RECURSIVE mermaid_matches(_, _)
mermaid_matches(content, pos) ==
    LET i == FindFrom(content, fence_open, pos)
        b == i + Len(fence_open)
        j == FindFrom(content, fence_close, b)
    IN  IF i = -1 \/ j = -1 THEN <<>>
        ELSE <<[body |-> Slice(content, b, j), start |-> b]>>
             \o mermaid_matches(content, j + Len(fence_close))

\* content[:content.find(match)].count('\n') + 1
line_number(content, match) ==
    Count(Slice(content, 0, Find(content, match)), NL) + 1

\* The diagrams list built from a readable file of the given name and text.
extract_mermaid_diagrams(name, content) ==
    LET matches == mermaid_matches(content, 0)
    IN  [i \in 1..Len(matches) |->
            [id |-> <<name, i - 1>>,
             file |-> name,
             content |-> Strip(matches[i].body),
             line_number |-> line_number(content, matches[i].body)]]

(***************************************************************************)
(* A run of the script: main, the probe it calls, and exit.                *)
(***************************************************************************)
\* The documentation files a docs directory may hold.
SampleFiles ==
    << [name |-> "a.md", readable |-> TRUE, text |->
        <<"#"," ","A","\n",BT,BT,BT,"m","e","r","m","a","i","d","\n","g",
          "r","a","p","h"," ","T","D","\n","A","-","-",">","B","\n",BT,BT,
          BT,"\n">>],
       [name |-> "b.md", readable |-> TRUE, text |->
        <<BT,BT,BT,"m","e","r","m","a","i","d","\n","g","r","a","p","h"," ",
          "T","D","\n","A","[","S","t","a","r","t","\n",BT,BT,BT,"\n","t",
          "e","x","t","\n",BT,BT,BT,"m","e","r","m","a","i","d","\n","s",
          "e","q","u","e","n","c","e","D","i","a","g","r","a","m","\n",BT,
          BT,BT,"\n">>],
       [name |-> "c.md", readable |-> TRUE, text |->
        <<"n","o"," ","d","i","a","g","r","a","m","s","\n">>],
       [name |-> "d.md", readable |-> FALSE, text |-> <<>>] >>

RECURSIVE PickFiles(_, _)
PickFiles(S, k) ==
    IF k > Len(SampleFiles) THEN <<>>
    ELSE (IF k \in S THEN <<SampleFiles[k]>> ELSE <<>>) \o PickFiles(S, k + 1)

DocsDirs ==
    { PickFiles(S, 1) :
        S \in { T \in SUBSET (1..Len(SampleFiles)) : Cardinality(T) <= MaxFiles } }

ValidateIdle ==
    /\ v_pc = "idle" /\ v_content = <<>> /\ v_errors = <<>> /\ v_type = None

ExtractIdle ==
    /\ x_pc = "idle" /\ x_text = <<>> /\ x_diagrams = <<>> /\ x_starts = <<>>

NoSummary == [printed |-> FALSE]
\* The report file: who wrote it last, and the records it holds.
NoReport == [by |-> "nobody", records |-> <<>>]
OldReport == [by |-> "earlier run", records |-> <<>>]
NoResult == [id |-> <<>>]
NoReturn == [render_result |-> "unset", render_message |-> "unset"]

MainIdle ==
    /\ pc = "idle"
    /\ docs_exists = FALSE /\ docs_files = <<>> /\ mmdc_present = FALSE
    /\ report_disk = NoReport /\ temp_disk = {}
    /\ markdown_files = <<>> /\ fidx = 0 /\ all_diagrams = <<>> /\ didx = 0
    /\ result = NoResult /\ validation_results = <<>> /\ total_errors = 0
    /\ temp_file = 0 /\ probe_ret = NoReturn /\ ret = "unset"
    /\ diagnostic = "none" /\ summary = NoSummary /\ exit_status = -1
    /\ probe_created = 0 /\ probe_path = "none" /\ probe_log = <<>>
    /\ calls = [extract |-> 0, validate |-> 0, probe |-> 0]

Init ==
    /\ pc = "check_docs"
    /\ docs_exists \in BOOLEAN
    /\ docs_files \in DocsDirs
    /\ (~docs_exists => docs_files = <<>>)
    /\ mmdc_present \in BOOLEAN
    /\ report_disk \in {NoReport, OldReport}
    /\ temp_disk = {}
    /\ markdown_files = <<>> /\ fidx = 0 /\ all_diagrams = <<>> /\ didx = 0
    /\ result = NoResult /\ validation_results = <<>> /\ total_errors = 0
    /\ temp_file = 0 /\ probe_ret = NoReturn /\ ret = "unset"
    /\ diagnostic = "none" /\ summary = NoSummary /\ exit_status = -1
    /\ probe_created = 0 /\ probe_path = "none" /\ probe_log = <<>>
    /\ calls = [extract |-> 0, validate |-> 0, probe |-> 0]
    /\ ValidateIdle
    /\ ExtractIdle

\* if not docs_dir.exists(): print(...); return
DocsDirMissing(exists) == ~exists

CheckDocsDir ==
    /\ pc = "check_docs"
    /\ IF DocsDirMissing(docs_exists)
       THEN /\ diagnostic' = "Docs directory not found"
            /\ ret' = "None"
            /\ pc' = "exit"
       ELSE /\ pc' = "glob"
            /\ UNCHANGED <<diagnostic, ret>>
    /\ UNCHANGED <<v_vars, x_vars, env_vars, probe_vars, loop_vars,
                   report_disk, summary, exit_status, calls>>

\* A variant of main without the check for an empty file list.
NoMarkdownFilesUnchecked(files) == FALSE

\* if not markdown_files: print(...); return
NoMarkdownFiles(files) == files = <<>>

\* The loop bounds of main: where control goes once fidx files have been
\* extracted, and once didx diagrams have been tested.
AfterExtract(i, files, diagrams) ==
    IF i <= Len(files) THEN "extract"
    ELSE IF diagrams # <<>> THEN "validate"
    ELSE "summary"

AfterDiagram(i, diagrams) ==
    IF i <= Len(diagrams) THEN "validate" ELSE "summary"

GlobFiles ==
    /\ pc = "glob"
    /\ markdown_files' = docs_files
    /\ IF NoMarkdownFiles(docs_files)
       THEN /\ diagnostic' = "No markdown files found"
            /\ ret' = "None"
            /\ pc' = "exit"
            /\ UNCHANGED <<fidx, total_errors>>
       ELSE /\ fidx' = 1
            /\ total_errors' = 0
            /\ pc' = AfterExtract(1, docs_files, <<>>)
            /\ UNCHANGED <<diagnostic, ret>>
    /\ UNCHANGED <<v_vars, x_vars, env_vars, probe_vars, all_diagrams, didx,
                   result, validation_results, probe_log, report_disk,
                   summary, exit_status, calls>>

\* One turn of "for file_path in markdown_files": a file that cannot be
\* read raises inside extract_mermaid_diagrams, which prints a warning and
\* returns the still empty list.
ExtractFile ==
    /\ pc = "extract"
    /\ LET f == markdown_files[fidx]
           diagrams == IF f.readable
                       THEN extract_mermaid_diagrams(f.name, f.text)
                       ELSE <<>>
       IN  /\ all_diagrams' = all_diagrams \o diagrams
           /\ fidx' = fidx + 1
           /\ didx' = 1
           /\ pc' = AfterExtract(fidx + 1, markdown_files, all_diagrams \o diagrams)
    /\ calls' = [calls EXCEPT !.extract = @ + 1]
    /\ UNCHANGED <<v_vars, x_vars, env_vars, probe_vars, markdown_files,
                   result, validation_results, total_errors, probe_log,
                   out_vars>>

\* The first half of one turn of "for diagram in all_diagrams": the syntax
\* validation and the result record.
ValidateDiagram ==
    /\ pc = "validate"
    /\ LET diagram == all_diagrams[didx]
           r == validate_mermaid_syntax(diagram.content)
       IN  /\ result' = [id |-> diagram.id,
                         file |-> diagram.file,
                         type |-> r.diagram_type,
                         syntax_errors |-> r.errors,
                         render_test |-> "None",
                         render_message |-> "None"]
           /\ total_errors' = total_errors + Len(r.errors)
    /\ calls' = [calls EXCEPT !.validate = @ + 1]
    /\ pc' = "probe_create"
    /\ UNCHANGED <<v_vars, x_vars, env_vars, probe_vars, markdown_files, fidx,
                   all_diagrams, didx, validation_results, probe_log,
                   out_vars>>

(***************************************************************************)
(* test_mermaid_rendering, step by step.                                   *)
(***************************************************************************)
\* The name of the file the next probe creates: unused so far.
FreshTemp == calls.probe + 1

\* tempfile.NamedTemporaryFile(mode='w', suffix='.mmd', delete=False): the
\* file is created on disk, or the call raises and the outer except returns.
ProbeCreateTemp ==
    /\ pc = "probe_create"
    /\ calls' = [calls EXCEPT !.probe = @ + 1]
    /\ \E ok \in BOOLEAN :
        IF ok
        THEN /\ temp_disk' = temp_disk \cup {FreshTemp}
             /\ probe_created' = FreshTemp
             /\ probe_path' = "created"
             /\ pc' = "probe_write"
             /\ UNCHANGED probe_ret
        ELSE /\ probe_created' = 0
             /\ probe_path' = "create failed"
             /\ probe_ret' = [render_result |-> "False",
                              render_message |-> "Rendering test error"]
             /\ pc' = "probe_returned"
             /\ UNCHANGED temp_disk
    /\ UNCHANGED <<v_vars, x_vars, env_vars, temp_file, loop_vars, out_vars>>

\* f.write(diagram_content); temp_file = f.name.  A write (or the flush on
\* leaving the with block) that raises leaves the with block, which closes
\* the file and, with delete=False, keeps it; the outer except returns.
ProbeWrite ==
    /\ pc = "probe_write"
    /\ \E ok \in BOOLEAN :
        IF ok
        THEN /\ temp_file' = probe_created
             /\ probe_path' = "written"
             /\ pc' = "probe_run"
             /\ UNCHANGED probe_ret
        ELSE /\ probe_path' = "write failed"
             /\ probe_ret' = [render_result |-> "False",
                              render_message |-> "Rendering test error"]
             /\ pc' = "probe_returned"
             /\ UNCHANGED temp_file
    /\ UNCHANGED <<v_vars, x_vars, env_vars, temp_disk, probe_created,
                   loop_vars, out_vars, calls>>

\* What subprocess.run can do: with the binary absent it raises
\* FileNotFoundError; otherwise the renderer exits 0, exits non-zero, runs
\* past the timeout, or the call raises another exception.
RunOutcomes(present) ==
    IF present THEN {"exit 0", "exit non-zero", "timeout", "other exception"}
    ELSE {"absent"}

\* A variant whose inner except names FileNotFoundError alone, so that a
\* timeout reaches the outer except.
RunResultTimeoutUncaught(outcome) ==
    CASE outcome = "exit 0" ->
            [render_result |-> "True", render_message |-> "Rendered successfully"]
      [] outcome = "exit non-zero" ->
            [render_result |-> "False", render_message |-> "Rendering failed"]
      [] outcome = "absent" ->
            [render_result |-> "None", render_message |-> "Mermaid CLI not available"]
      [] OTHER ->
            [render_result |-> "False", render_message |-> "Rendering test error"]

\* The value the inner try chooses for an outcome of subprocess.run; an
\* exception it does not catch reaches the outer except.
RunResult(outcome) ==
    CASE outcome = "exit 0" ->
            [render_result |-> "True", render_message |-> "Rendered successfully"]
      [] outcome = "exit non-zero" ->
            [render_result |-> "False", render_message |-> "Rendering failed"]
      [] outcome \in {"timeout", "absent"} ->
            [render_result |-> "None", render_message |-> "Mermaid CLI not available"]
      [] OTHER ->
            [render_result |-> "False", render_message |-> "Rendering test error"]

ProbeRun ==
    /\ pc = "probe_run"
    /\ \E outcome \in RunOutcomes(mmdc_present) :
        /\ probe_path' = outcome
        /\ probe_ret' = RunResult(outcome)
    /\ pc' = "probe_finally"
    /\ UNCHANGED <<v_vars, x_vars, env_vars, temp_disk, temp_file,
                   probe_created, loop_vars, out_vars, calls>>

\* finally: os.unlink(temp_file)
ProbeFinally ==
    /\ pc = "probe_finally"
    /\ temp_disk' = temp_disk \ {temp_file}
    /\ pc' = "probe_returned"
    /\ UNCHANGED <<v_vars, x_vars, env_vars, temp_file, probe_ret,
                   probe_created, probe_path, loop_vars, out_vars, calls>>

\* A variant that counts every render that did not succeed.
RenderErrorsUnlessTrue(render_result) == IF render_result = "True" THEN 0 ELSE 1

\* What a render result adds to total_errors.
RenderErrors(render_result) == IF render_result = "False" THEN 1 ELSE 0

\* The second half of the turn: the probe's result is stored and counted.
RecordRender ==
    /\ pc = "probe_returned"
    /\ LET done == [result EXCEPT !.render_test = probe_ret.render_result,
                                  !.render_message = probe_ret.render_message]
       IN  /\ validation_results' = Append(validation_results, done)
           /\ result' = done
    /\ total_errors' = total_errors + RenderErrors(probe_ret.render_result)
    /\ probe_log' = Append(probe_log, probe_path)
    /\ didx' = didx + 1
    /\ pc' = AfterDiagram(didx + 1, all_diagrams)
    /\ temp_file' = 0
    /\ probe_ret' = NoReturn
    /\ UNCHANGED <<v_vars, x_vars, env_vars, temp_disk, probe_created,
                   probe_path, markdown_files, fidx, all_diagrams, out_vars,
                   calls>>

(***************************************************************************)
(* The summary, the report and the exit status.                            *)
(***************************************************************************)
HasNoSyntaxErrors(r) == r.syntax_errors = <<>>

valid_diagrams(results) == Len(SelectSeq(results, HasNoSyntaxErrors))

\* A variant that lists the files with syntax errors only.
files_with_syntax_errors(results, total) ==
    IF total = 0 THEN {}
    ELSE { results[i].file : i \in
            { j \in 1..Len(results) : results[j].syntax_errors # <<>> } }

\* The files printed under "Files with errors:", which is printed only
\* when total_errors is not 0.
files_with_errors(results, total) ==
    IF total = 0 THEN {}
    ELSE { results[i].file : i \in
            { j \in 1..Len(results) :
                results[j].syntax_errors # <<>> \/ results[j].render_test = "False" } }

PrintSummary ==
    /\ pc = "summary"
    /\ summary' = [printed |-> TRUE,
                   valid |-> valid_diagrams(validation_results),
                   total |-> Len(all_diagrams),
                   errors |-> total_errors,
                   files |-> files_with_errors(validation_results, total_errors)]
    /\ pc' = "save"
    /\ UNCHANGED <<v_vars, x_vars, env_vars, probe_vars, loop_vars,
                   report_disk, ret, diagnostic, exit_status, calls>>

\* return total_errors == 0
MainReturn(total) == IF total = 0 THEN "True" ELSE "False"

\* open(results_file, 'w') and json.dump: the report replaces what was on
\* disk and main returns, or the write raises and the exception leaves main.
SaveReport ==
    /\ pc = "save"
    /\ \E ok \in BOOLEAN :
        IF ok
        THEN /\ report_disk' = [by |-> "this run", records |-> validation_results]
             /\ ret' = MainReturn(total_errors)
        ELSE /\ ret' = "raised"
             /\ UNCHANGED report_disk
    /\ pc' = "exit"
    /\ UNCHANGED <<v_vars, x_vars, env_vars, probe_vars, loop_vars,
                   diagnostic, summary, exit_status, calls>>

\* A variant that tests for False alone, so that None counts as success.
ExitStatusUnlessFalse(success) == IF success = "False" THEN 1 ELSE 0

\* exit(0 if success else 1); an uncaught exception ends the process with
\* status 1.
ExitStatus(success) == IF success = "True" THEN 0 ELSE 1

Exit ==
    /\ pc = "exit"
    /\ exit_status' = ExitStatus(ret)
    /\ pc' = "done"
    /\ UNCHANGED <<v_vars, x_vars, env_vars, probe_vars, loop_vars,
                   report_disk, ret, diagnostic, summary, calls>>

Next ==
    \/ CheckDocsDir
    \/ GlobFiles
    \/ ExtractFile
    \/ ValidateDiagram
    \/ ProbeCreateTemp
    \/ ProbeWrite
    \/ ProbeRun
    \/ ProbeFinally
    \/ RecordRender
    \/ PrintSummary
    \/ SaveReport
    \/ Exit

Spec == Init /\ [][Next]_vars

(***************************************************************************)
(* The validator on its own: every diagram text of up to MaxLines lines    *)
(* drawn from SampleLines.                                                 *)
(***************************************************************************)
SampleLines ==
    { <<"g","r","a","p","h"," ","T","D">>,
      <<"s","e","q","u","e","n","c","e","D","i","a","g","r","a","m">>,
      <<>>,
      <<"A","[","S","t","a","r","t">>,
      <<"A","-","-",">","B","(","E","n","d",")","}">>,
      <<" "," ","s","t","y","l","e"," ","A"," ","f","i","l","l",":","#","f">>,
      <<"s","t","y","l","e"," ","A"," ","f","i","l","l",":","#","f">>,
      <<"s","t","y","l","e"," ","X"," ","c","o","l","o","r",":","r","e","d">> }

\* main hands the validator only texts that str.strip has trimmed.
SampleContents ==
    { c \in { JoinLines(ls) :
                ls \in UNION { [1..n -> SampleLines] : n \in 0..MaxLines } } :
        Strip(c) = c }

\* Lines of a documentation file: the two fences, a body line, a blank line.
SampleFileLines ==
    { <<BT,BT,BT,"m","e","r","m","a","i","d">>,
      <<BT,BT,BT>>,
      <<"A">>,
      <<>> }

SampleTexts ==
    { JoinLines(ls) : ls \in UNION { [1..n -> SampleFileLines] : n \in 1..MaxFileLines } }

ValidateInit ==
    /\ v_pc = "call"
    /\ v_content \in SampleContents
    /\ v_errors = <<>>
    /\ v_type = None
    /\ ExtractIdle
    /\ MainIdle

Validate ==
    /\ v_pc = "call"
    /\ LET r == validate_mermaid_syntax(v_content)
       IN  /\ v_errors' = r.errors
           /\ v_type' = r.diagram_type
    /\ v_pc' = "returned"
    /\ UNCHANGED <<v_content, x_vars, m_vars>>

ValidateNext == Validate

SpecValidate == ValidateInit /\ [][ValidateNext]_vars

(***************************************************************************)
(* The extractor on its own: every file text of up to MaxFileLines lines   *)
(* drawn from SampleFileLines.                                             *)
(***************************************************************************)
ExtractInit ==
    /\ x_pc = "call"
    /\ x_text \in SampleTexts
    /\ x_diagrams = <<>>
    /\ x_starts = <<>>
    /\ ValidateIdle
    /\ MainIdle

Extract ==
    /\ x_pc = "call"
    /\ x_diagrams' = extract_mermaid_diagrams("doc.md", x_text)
    /\ x_starts' = [i \in 1..Len(mermaid_matches(x_text, 0)) |->
                        mermaid_matches(x_text, 0)[i].start]
    /\ x_pc' = "returned"
    /\ UNCHANGED <<x_text, v_vars, m_vars>>

ExtractNext == Extract

SpecExtract == ExtractInit /\ [][ExtractNext]_vars

(***************************************************************************)
(* Properties of a run (checked under Spec).                               *)
(***************************************************************************)
\* Discovery fails when docs is missing or holds no *.md file.
DiscoveryFailed == ~docs_exists \/ docs_files = <<>>

AfterLoop == ~DiscoveryFailed /\ pc \in {"summary", "save", "exit", "done"}

RECURSIVE SyntaxErrorCount(_)
SyntaxErrorCount(results) ==
    IF results = <<>> THEN 0
    ELSE Len(Head(results).syntax_errors) + SyntaxErrorCount(Tail(results))

RenderFalse == { i \in 1..Len(validation_results) :
                    validation_results[i].render_test = "False" }

\* The run's total error count as the data model defines it.
RunErrorCount == SyntaxErrorCount(validation_results) + Cardinality(RenderFalse)

\* C1 as stated: the exit status is 0 iff the run's total error count is
\* zero, and 1 in every other case, discovery failures included.
C1_ExitZeroIffNoErrors ==
    pc = "done" =>
        exit_status = IF ~DiscoveryFailed /\ RunErrorCount = 0 THEN 0 ELSE 1

\* C1 amended: the exit status is 0 iff the run passed discovery, its total
\* error count is zero and the report was written; it is 1 in every other
\* case: a non-zero count, a discovery failure, or a report write that
\* raised.
C1_ExitZeroIffNoErrorsAndReportWritten ==
    pc = "done" =>
        exit_status = IF /\ ~DiscoveryFailed
                         /\ RunErrorCount = 0
                         /\ report_disk.by = "this run"
                      THEN 0 ELSE 1

\* A finished run with a diagram that has no syntax error and an
\* indeterminate render, no defect at all, and its report written: exit
\* status 0.
C1_Witness ==
    /\ pc = "done"
    /\ \E i \in 1..Len(validation_results) :
            validation_results[i].render_test = "None"
    /\ RunErrorCount = 0
    /\ report_disk.by = "this run"
    /\ exit_status = 0

\* C2: once all diagrams are processed, total_errors is the sum of the
\* lengths of syntax_errors over all results plus one per result whose
\* render_test is false; indeterminate and true add nothing.  (It also
\* holds between two diagrams of the loop.)
C2_TotalErrorCount ==
    (AfterLoop \/ pc = "validate") => total_errors = RunErrorCount

\* After the loop: one result with syntax errors and an indeterminate
\* render, another with a failed render.
C2_Witness ==
    /\ pc = "summary"
    /\ \E i \in 1..Len(validation_results) :
        /\ validation_results[i].syntax_errors # <<>>
        /\ validation_results[i].render_test = "None"
    /\ RenderFalse # {}
    /\ total_errors = RunErrorCount

Defective == { i \in 1..Len(validation_results) :
                \/ validation_results[i].syntax_errors # <<>>
                \/ validation_results[i].render_test = "False" }

SummaryShown ==
    /\ summary.printed
    /\ summary.valid = Cardinality({ i \in 1..Len(validation_results) :
                                        validation_results[i].syntax_errors = <<>> })
    /\ summary.total = Len(all_diagrams)
    /\ summary.errors = RunErrorCount
    /\ summary.files = { validation_results[i].file : i \in Defective }

\* C3 as stated: every run, one that fails at discovery included, shows a
\* summary with the valid count, the total count, the defect count and the
\* distinct files with a defect.
C3_SummaryOnEveryRun == pc = "done" => SummaryShown

\* C3 amended: every run that passes discovery shows that summary; a run
\* that fails at discovery shows the discovery diagnostic and no summary.
C3_SummaryUnlessDiscoveryFails ==
    pc = "done" =>
        IF DiscoveryFailed
        THEN ~summary.printed /\ diagnostic # "none"
        ELSE SummaryShown /\ diagnostic = "none"

\* A finished run whose summary names a file for a failed render alone.
C3_Witness ==
    /\ pc = "done"
    /\ SummaryShown
    /\ summary.errors > 0
    /\ \E i \in RenderFalse : validation_results[i].syntax_errors = <<>>

\* C4: when the probe returns, whatever happened in it, the temporary file
\* it created is not on disk.
C4_TempFileRemoved ==
    pc = "probe_returned" => probe_created \notin temp_disk

\* C5: a run that fails at discovery ends with a non-success status and
\* does nothing else: no file extracted, no diagram validated or probed, no
\* report created or overwritten.
C5_DiscoveryFailureStopsRun ==
    DiscoveryFailed =>
        /\ pc \in {"check_docs", "glob", "exit", "done"}
        /\ calls = [extract |-> 0, validate |-> 0, probe |-> 0]
        /\ all_diagrams = <<>> /\ validation_results = <<>>
        /\ temp_disk = {}
        /\ report_disk \in {NoReport, OldReport}
        /\ (pc = "done" => exit_status = 1)

\* docs exists but holds no *.md file, an earlier report is on disk: the
\* run has ended with status 1 and the report is still the earlier one.
C5_Witness ==
    /\ pc = "done"
    /\ docs_exists /\ docs_files = <<>>
    /\ diagnostic = "No markdown files found"
    /\ report_disk = OldReport
    /\ exit_status = 1

Reported == 1..Len(validation_results)

v_lines == SplitLines(v_content)

ErrorsOfKind(kind) == { i \in 1..Len(v_errors) : v_errors[i].kind = kind }

Occurrences(s, c) == Cardinality({ i \in 1..Len(s) : s[i] = c })

Pairs ==
    { [kind |-> "Unclosed brackets", open |-> "[", close |-> "]"],
      [kind |-> "Unclosed braces", open |-> "{", close |-> "}"],
      [kind |-> "Unclosed parentheses", open |-> "(", close |-> ")"] }

\* C10: for each of the pairs [], {}, () independently, an unclosed-delimiter
\* error naming the pair is reported iff the number of opening characters
\* differs from the number of closing characters, and it carries the signed
\* difference count(open) - count(close).
C10_BracketBalance ==
    v_pc = "returned" =>
        \A p \in Pairs :
            LET d == Occurrences(v_content, p.open) - Occurrences(v_content, p.close)
            IN  /\ (d # 0) <=> (ErrorsOfKind(p.kind) # {})
                /\ Cardinality(ErrorsOfKind(p.kind)) <= 1
                /\ \A i \in ErrorsOfKind(p.kind) : v_errors[i].n = d

\* A text with one more [ than ], one more } than {, and balanced ():
\* errors +1 for brackets and -1 for braces, none for parentheses.
C10_Witness ==
    /\ v_pc = "returned"
    /\ Occurrences(v_content, "(") = 1 /\ Occurrences(v_content, ")") = 1
    /\ \E i \in ErrorsOfKind("Unclosed brackets") : v_errors[i].n = 1
    /\ \E i \in ErrorsOfKind("Unclosed braces") : v_errors[i].n = -1
    /\ ErrorsOfKind("Unclosed parentheses") = {}

\* The recognised header matched first among the lines ls: the earliest
\* line holding any header, and in it the earliest entry of valid_types.
FirstHeaderIn(ls) ==
    LET Holds(i) == { k \in 1..Len(valid_types) : Contains(ls[i], valid_types[k]) }
        hits == { i \in 1..Len(ls) : Holds(i) # {} }
    IN  IF hits = {} THEN None
        ELSE LET i == CHOOSE h \in hits : \A g \in hits : h <= g
                 k == CHOOSE h \in Holds(i) : \A g \in Holds(i) : h <= g
             IN  valid_types[k]

FirstN(ls, n) == SubSeq(ls, 1, IF Len(ls) < n THEN Len(ls) ELSE n)

IsNonEmpty(line) == line # <<>>

\* C7 as stated: detection looks at the first 3 NON-EMPTY lines only; the
\* detected type is the header matched first among them, and when none of
\* them holds a header "No valid diagram type found" is reported and the
\* type is absent.
C7_FirstThreeNonEmptyLines ==
    v_pc = "returned" =>
        /\ v_type = FirstHeaderIn(FirstN(SelectSeq(v_lines, IsNonEmpty), 3))
        /\ (v_type = None) <=> (ErrorsOfKind("No valid diagram type found") # {})

\* C7 amended: detection looks at the first 3 lines of the text, blank lines
\* counted; the detected type is the header matched first among them, and
\* when none of them holds a header (for example the only header is on line
\* 4 or later) "No valid diagram type found" is reported and the type is
\* absent.
C7_FirstThreeLines ==
    v_pc = "returned" =>
        /\ v_type = FirstHeaderIn(FirstN(v_lines, 3))
        /\ (v_type = None) <=> (ErrorsOfKind("No valid diagram type found") # {})

\* A text whose only header is on line 4, which is its third non-empty
\* line: no type is detected and the error is reported.
C7_Witness ==
    /\ v_pc = "returned"
    /\ Len(v_lines) = 4
    /\ v_lines[2] = <<>>
    /\ v_lines[1] # <<>> /\ v_lines[3] # <<>>
    /\ FirstHeaderIn(FirstN(v_lines, 3)) = None
    /\ FirstHeaderIn(<<v_lines[4]>>) # None
    /\ v_type = None
    /\ ErrorsOfKind("No valid diagram type found") # {}

\* C8 as stated: for every line whose trimmed text starts with "style ", a
\* style-syntax error carrying that line is reported iff the line does not
\* conform to style <identifier> fill:..., whatever its indentation.
C8_StyleErrorIffNonConforming ==
    v_pc = "returned" =>
        \A i \in 1..Len(v_lines) :
            IsStyleLine(v_lines[i]) =>
                ( (\E e \in ErrorsOfKind("Invalid style syntax") :
                        v_errors[e].line = Strip(v_lines[i]))
                  <=> ~ReMatchStyle(Strip(v_lines[i])) )

(***************************************************************************)
(* Properties of the extractor (checked under SpecExtract).                *)
(***************************************************************************)
\* C9: every record's line_number is the 1-based line at which that block's
\* own content begins in the file.
C9_LineNumberOfOwnBlock ==
    x_pc = "returned" =>
        \A i \in 1..Len(x_diagrams) :
            x_diagrams[i].line_number
                = Occurrences(Slice(x_text, 0, x_starts[i]), NL) + 1

====
